---- MODULE Spec2Model ----
(***************************************************************************)
(* Verification model of incident_form_builder.                            *)
(*                                                                         *)
(*  - SpecSync   : the editor sync controller shared by RichTextEditor    *)
(*                 and RichTextArea (isUpdatingFromProp /                  *)
(*                 lastExternalValue, onUpdate, the external-value         *)
(*                 effect and its setTimeout(0) reset).                    *)
(*  - SpecInline : parseInlineMarkdown of lib/docx-generator.ts, one       *)
(*                 while-loop iteration per step.                          *)
(*  - SpecMd     : parseMarkdownToParagraphs of lib/docx-generator.ts,     *)
(*                 one forEach iteration per step.                         *)
(*  - SpecDocx   : generateIncidentReportDocx of lib/docx-generator.ts,    *)
(*                 one awaited promise per step.                           *)
(*  - SpecEnhance: the form page's attachments and handleAIEnhance.        *)
(*  - SpecImpact : the form page's impact selection.                       *)
(*  SpecSyncFair, SpecInlineFair and SpecDocxFair add the fairness that    *)
(*  timers, synchronous code and promise continuations have.               *)
(*                                                                         *)
(* Strings that the code inspects character by character are sequences of  *)
(* one-character strings.                                                  *)
(***************************************************************************)
EXTENDS Integers, Sequences, FiniteSets, TLC

VARIABLES
    \* ---- editor sync controller ----
    editor,              \* useEditor() result is non-null
    value,               \* the `value` prop of the last render
    isUpdatingFromProp,  \* useRef(false)
    lastExternalValue,   \* useRef(value)
    content,             \* editor.getHTML()
    pendingClears,       \* setTimeout(..., 0) callbacks not yet run
    onChangeCalls,       \* arguments of the onChange calls, in order
    echoes,              \* emitted values the caller has not rendered back
    lastOp,              \* history: the handler that ran last
    lastLoaded,          \* history: value of the last external load
    afterDrop,           \* history: an edit was dropped since the last load
                         \*          and no edit was emitted after it
    \* ---- parseInlineMarkdown ----
    inText,              \* the `text` argument
    remaining,           \* let remaining
    runs,                \* const runs
    inPc,                \* "call" | "loop" | "done"
    inSel,               \* history: candidate selected by the last iteration
    inCands,             \* history: candidates of the last iteration
    italicDelims,        \* history: positions in `text` (1-based) of the
                         \*          characters consumed as italic delimiters
    \* ---- parseMarkdownToParagraphs ----
    mdText,              \* the `text` argument
    mdLines,             \* const lines
    mdIdx,               \* forEach position (lines already processed)
    currentListNumber,   \* let currentListNumber
    paragraphs,          \* const paragraphs
    mdPc,                \* "start" | "lines" | "done"
    \* ---- generateIncidentReportDocx ----
    data,                \* the ReportData argument (fields the model reads)
    hostTz,              \* host time zone, hours east of UTC
    genPc,               \* "idle" | "fetch" | "body" | "done"
    netState,            \* the awaited promise: "none" | "pending" | "stalled"
    logoBuffer,          \* const logoBuffer: "buffer" | "null"
    doc,                 \* the returned Document (parts the model builds)
    \* ---- form page: attachments and AI enhancement ----
    attachments,         \* useState<Attachment[]>([])
    nextId,              \* Date.now() of the next addAttachment, as a serial
    findings,            \* useState<string>('')
    enhancingField,      \* useState<EnhancingField | null>(null)
    requests,            \* axios.post calls in flight, with what the
                         \* setter passed to handleAIEnhance closes over
    formOp,              \* history: the handler that ran last
    \* ---- form page: impact selection ----
    impactCategories,    \* useState<ImpactCategory[]>([])
    impactOthersSpecify, \* useState<string>('')
    impactOp             \* history: the handler that ran last, and the
                         \*          free text before it ran

syncVars == <<editor, value, isUpdatingFromProp, lastExternalValue, content,
              pendingClears, onChangeCalls, echoes, lastOp, lastLoaded,
              afterDrop>>
inVars   == <<inText, remaining, runs, inPc, inSel, inCands, italicDelims>>
mdVars   == <<mdText, mdLines, mdIdx, currentListNumber, paragraphs, mdPc>>
docVars  == <<data, hostTz, genPc, netState, logoBuffer, doc>>
enhVars  == <<attachments, nextId, findings, enhancingField, requests,
              formOp>>
impVars  == <<impactCategories, impactOthersSpecify, impactOp>>
vars     == <<syncVars, inVars, mdVars, docVars, enhVars, impVars>>

----------------------------------------------------------------------------
(* Bounds *)

MaxCalls  == 3   \* onChange calls recorded
MaxTimers == 2   \* zero-delay timers pending at once
MaxInline == 7   \* characters of an enumerated inline text
MaxLines  == 3   \* lines of a markdown text
MaxAtt    == 2   \* attachments of a report
MaxCats   == 2   \* selected impact categories of a report
MaxIds    == 1   \* attachments ever added to the form
MaxReq    == 2   \* enhancement requests in flight at once

----------------------------------------------------------------------------
(* Editor sync controller: RichTextEditor / RichTextArea                   *)

\* Markdown strings the caller may supply.  "* a" is a bullet written with
\* the marker turndown does not emit (bulletListMarker: '-').
Markdown == {"", "a", "* a", "-   a"}

\* Documents the editing surface can hold, as editor.getHTML() returns them.
Docs == {"<p></p>", "<p>a</p>", "<ul><li>a</li></ul>"}

\* showdownConverter.makeHtml behind the guard of markdownToHtml
markdownToHtml(markdown) ==
    IF markdown = "" THEN ""
    ELSE IF markdown = "a" THEN "<p>a</p>"
    ELSE "<ul><li>a</li></ul>"

\* turndownService.turndown behind the guard of htmlToMarkdown
htmlToMarkdown(html) ==
    IF html = "" \/ html = "<p></p>" THEN ""
    ELSE IF html = "<p>a</p>" THEN "a"
    ELSE "-   a"

\* editor.commands.setContent(html): the document the surface holds after
\* the load; the empty document serialises as one empty paragraph.
setContent(html) == IF html = "" THEN "<p></p>" ELSE html

\* The refs and outputs a handler reads and writes.
SyncState == [isUpdatingFromProp |-> isUpdatingFromProp,
              lastExternalValue  |-> lastExternalValue,
              content            |-> content,
              pendingClears      |-> pendingClears,
              onChangeCalls      |-> onChangeCalls]

\* onUpdate without the isUpdatingFromProp guard
onUpdateUnguarded(st) ==
    LET markdown == htmlToMarkdown(st.content)
    IN  [st EXCEPT !.lastExternalValue = markdown,
                   !.onChangeCalls = Append(@, markdown)]

\* onUpdate that forgets lastExternalValue.current = markdown
onUpdateKeepsRef(st) ==
    IF st.isUpdatingFromProp THEN st
    ELSE [st EXCEPT !.onChangeCalls = Append(@, htmlToMarkdown(st.content))]

\* onUpdate: ({ editor }) => { ... }
onUpdate(st) ==
    IF st.isUpdatingFromProp THEN st
    ELSE LET markdown == htmlToMarkdown(st.content)
         IN  [st EXCEPT !.lastExternalValue = markdown,
                        !.onChangeCalls = Append(@, markdown)]

\* the effect with the flag raised only after setContent returned
externalValueEffectLateFlag(st, ed, v, raised) ==
    IF ed /\ v # st.lastExternalValue
    THEN LET s1 == [st EXCEPT !.lastExternalValue = v]
             s2 == [s1 EXCEPT !.content = setContent(markdownToHtml(v))]
             s3 == IF raised THEN onUpdate(s2) ELSE s2
         IN  [s3 EXCEPT !.isUpdatingFromProp = TRUE, !.pendingClears = @ + 1]
    ELSE st

\* the effect skipping the load while a previous load is being applied
externalValueEffectSkipsBusy(st, ed, v, raised) ==
    IF ed /\ v # st.lastExternalValue /\ ~st.isUpdatingFromProp
    THEN LET s1 == [st EXCEPT !.isUpdatingFromProp = TRUE,
                              !.lastExternalValue = v]
             s2 == [s1 EXCEPT !.content = setContent(markdownToHtml(v))]
             s3 == IF raised THEN onUpdate(s2) ELSE s2
         IN  [s3 EXCEPT !.pendingClears = @ + 1]
    ELSE st

\* Body of useEffect(..., [value, editor]) for a render whose props are
\* (ed, v).  `raised` tells whether setContent dispatches an update event
\* to onUpdate while it runs: { emitUpdate: false } asks for none, an
\* editor build that reads the second argument as a truthy flag raises one.
externalValueEffect(st, ed, v, raised) ==
    IF ed /\ v # st.lastExternalValue
    THEN LET s1 == [st EXCEPT !.isUpdatingFromProp = TRUE,
                              !.lastExternalValue = v]
             s2 == [s1 EXCEPT !.content = setContent(markdownToHtml(v))]
             s3 == IF raised THEN onUpdate(s2) ELSE s2
         IN  [s3 EXCEPT !.pendingClears = @ + 1]
    ELSE st

\* a timer callback that leaves the flag set
clearFlagKeepsFlag(st) == [st EXCEPT !.pendingClears = @ - 1]

\* setTimeout callback: isUpdatingFromProp.current = false
clearFlag(st) ==
    [st EXCEPT !.isUpdatingFromProp = FALSE, !.pendingClears = @ - 1]

Commit(st) ==
    /\ isUpdatingFromProp' = st.isUpdatingFromProp
    /\ lastExternalValue' = st.lastExternalValue
    /\ content' = st.content
    /\ pendingClears' = st.pendingClears
    /\ onChangeCalls' = st.onChangeCalls

EffectLoads(ed, v) == ed /\ v # lastExternalValue

\* useEditor with immediatelyRender: false: the editor is created after
\* the first commit from content: markdownToHtml(value) of the first
\* render, and the effect runs because its `editor` dependency changed.
EditorCreated(raised) ==
    /\ ~editor
    /\ editor' = TRUE
    /\ EffectLoads(TRUE, value) => pendingClears < MaxTimers
    /\ Commit(externalValueEffect(
                [SyncState EXCEPT
                   !.content = setContent(markdownToHtml(lastExternalValue))],
                TRUE, value, raised))
    /\ lastOp' = IF EffectLoads(TRUE, value)
                 THEN (IF raised THEN "loadRaised" ELSE "load")
                 ELSE "create"
    /\ lastLoaded' = IF EffectLoads(TRUE, value) THEN value ELSE lastLoaded
    /\ afterDrop' = FALSE
    /\ UNCHANGED <<value, echoes>>

\* The caller renders the component with a different `value` prop; the
\* effect runs because its `value` dependency changed.
ExternalValueChange(v, raised) ==
    /\ v # value
    /\ EffectLoads(editor, v) => pendingClears < MaxTimers
    /\ value' = v
    /\ Commit(externalValueEffect(SyncState, editor, v, raised))
    /\ lastOp' = IF EffectLoads(editor, v)
                 THEN (IF raised THEN "loadRaised" ELSE "load")
                 ELSE "skip"
    /\ lastLoaded' = IF EffectLoads(editor, v) THEN v ELSE lastLoaded
    /\ afterDrop' = IF EffectLoads(editor, v) THEN FALSE ELSE afterDrop
    /\ UNCHANGED <<editor, echoes>>

\* The user changes the document; the editor raises its update event.
LocalEdit(h) ==
    /\ editor
    /\ h # content
    /\ isUpdatingFromProp \/ Len(onChangeCalls) < MaxCalls
    /\ Commit(onUpdate([SyncState EXCEPT !.content = h]))
    /\ echoes' = IF isUpdatingFromProp THEN echoes
                 ELSE Append(echoes, htmlToMarkdown(h))
    /\ lastOp' = IF isUpdatingFromProp THEN "drop" ELSE "edit"
    /\ afterDrop' = isUpdatingFromProp
    /\ UNCHANGED <<editor, value, lastLoaded>>

\* The caller, whose state took the values passed to onChange in order,
\* renders the component with the oldest one not yet rendered back; the
\* effect runs when that changes its `value` dependency.
EchoDelivered(raised) ==
    /\ echoes # <<>>
    /\ LET v     == Head(echoes)
           loads == v # value /\ EffectLoads(editor, v)
       IN  /\ loads => pendingClears < MaxTimers
           /\ value' = v
           /\ echoes' = Tail(echoes)
           /\ Commit(IF v # value
                     THEN externalValueEffect(SyncState, editor, v, raised)
                     ELSE SyncState)
           /\ lastOp' = IF loads
                        THEN (IF raised THEN "loadRaised" ELSE "load")
                        ELSE "skip"
           /\ lastLoaded' = IF loads THEN v ELSE lastLoaded
           /\ afterDrop' = IF loads THEN FALSE ELSE afterDrop
    /\ UNCHANGED editor

\* A zero-delay timer set by the effect fires.
TimerFires ==
    /\ pendingClears > 0
    /\ Commit(clearFlag(SyncState))
    /\ lastOp' = "clear"
    /\ UNCHANGED <<editor, value, echoes, lastLoaded, afterDrop>>

InitSync ==
    /\ editor = FALSE
    /\ value \in Markdown
    /\ isUpdatingFromProp = FALSE
    /\ lastExternalValue = value
    /\ content = "<p></p>"
    /\ pendingClears = 0
    /\ onChangeCalls = <<>>
    /\ echoes = <<>>
    /\ lastOp = "init"
    /\ lastLoaded = value
    /\ afterDrop = FALSE
    \* parseInlineMarkdown and parseMarkdownToParagraphs are not running
    /\ inText = <<>>
    /\ remaining = <<>>
    /\ runs = <<>>
    /\ inPc = "done"
    /\ inSel = [found |-> FALSE]
    /\ inCands = {}
    /\ italicDelims = {}
    /\ mdText = <<>>
    /\ mdLines = <<>>
    /\ mdIdx = 0
    /\ currentListNumber = 0
    /\ paragraphs = <<>>
    /\ mdPc = "done"
    \* generateIncidentReportDocx is not running
    /\ data = [datePrepared |-> <<>>, attachments |-> <<>>,
               impactCategories |-> <<>>, impactOthersSpecify |-> <<>>,
               findings |-> <<>>, policyViolation |-> <<>>]
    /\ hostTz = 0
    /\ genPc = "idle"
    /\ netState = "none"
    /\ logoBuffer = "null"
    /\ doc = [built |-> FALSE]
    \* the form page is not mounted
    /\ attachments = <<>>
    /\ nextId = 1
    /\ findings = ""
    /\ enhancingField = [kind |-> "null", id |-> 0]
    /\ requests = <<>>
    /\ formOp = [op |-> "init"]
    /\ impactCategories = <<>>
    /\ impactOthersSpecify = ""
    /\ impactOp = [op |-> "init"]

NextSync ==
    \/ \E raised \in BOOLEAN : EditorCreated(raised) /\ UNCHANGED <<inVars, mdVars, docVars, enhVars, impVars>>
    \/ \E v \in Markdown, raised \in BOOLEAN :
          ExternalValueChange(v, raised) /\ UNCHANGED <<inVars, mdVars, docVars, enhVars, impVars>>
    \/ \E h \in Docs : LocalEdit(h) /\ UNCHANGED <<inVars, mdVars, docVars, enhVars, impVars>>
    \/ \E raised \in BOOLEAN :
          EchoDelivered(raised) /\ UNCHANGED <<inVars, mdVars, docVars, enhVars, impVars>>
    \/ TimerFires /\ UNCHANGED <<inVars, mdVars, docVars, enhVars, impVars>>

SpecSync == InitSync /\ [][NextSync]_vars

\* A timer set with setTimeout(..., 0) is run by the event loop.
SpecSyncFair ==
    /\ InitSync /\ [][NextSync]_vars
    /\ WF_vars(TimerFires /\ UNCHANGED <<inVars, mdVars, docVars, enhVars, impVars>>)

----------------------------------------------------------------------------
(* Claims about the editor sync controller (SpecSync)                      *)

Loaded == lastOp \in {"load", "loadRaised"}

\* C1: a local edit that arrives after an external value change V and
\* before the deferred clear has run emits no onChange call, neither when
\* it arrives nor when a deferred clear runs later, and while no later edit
\* has been emitted lastExternalValue stays V.
C1_DroppedEditNeverEmitted ==
    /\ [][lastOp' \in {"drop", "clear"} => onChangeCalls' = onChangeCalls]_vars
    /\ [](afterDrop => lastExternalValue = lastLoaded)

\* C1 witness: an edit was dropped, every window has cleared, and the
\* surface holds the dropped edit while lastExternalValue is still V.
C1_Witness ==
    /\ afterDrop /\ lastOp = "clear"
    /\ ~isUpdatingFromProp /\ pendingClears = 0
    /\ htmlToMarkdown(content) # lastExternalValue
    /\ lastExternalValue = lastLoaded

\* C2: a step that loads an externally supplied value, including an update
\* event the load raises while it runs, makes no onChange call.
C2_LoadNeverNotifies ==
    [][lastOp' \in {"load", "loadRaised"} => onChangeCalls' = onChangeCalls]_vars

\* C2 witness: a load that raised an update event has just run.
C2_Witness ==
    lastOp = "loadRaised" /\ isUpdatingFromProp /\ lastExternalValue = value

\* C3: every render that supplies a value unequal to lastExternalValue
\* while the editor exists loads it and records it, whatever the flag and
\* whatever local edits came before.
C3_ExternalChangeAlwaysLoaded ==
    [][LET supplied == value' # value \/ (~editor /\ editor')
       IN  (editor' /\ supplied /\ value' # lastExternalValue)
             => /\ content' = setContent(markdownToHtml(value'))
                /\ lastExternalValue' = value']_vars

\* C3 witness: a value was loaded inside the suppression window of an
\* earlier load, after a local edit had been emitted.
C3_Witness ==
    Loaded /\ pendingClears >= 2 /\ onChangeCalls # <<>>

\* C4: an edit arriving while the flag is false makes exactly one onChange
\* call with htmlToMarkdown of the surface content and stores that value in
\* lastExternalValue; no other step makes an onChange call.
C4_OnlyUnsuppressedEditNotifies ==
    /\ [][lastOp' = "edit" =>
            /\ onChangeCalls' = Append(onChangeCalls, htmlToMarkdown(content'))
            /\ lastExternalValue' = htmlToMarkdown(content')]_vars
    /\ [][lastOp' # "edit" => onChangeCalls' = onChangeCalls]_vars
    /\ [](lastOp = "edit" =>
            lastExternalValue = onChangeCalls[Len(onChangeCalls)])

\* C4 witness: a second notification has just been made.
C4_Witness ==
    /\ lastOp = "edit" /\ Len(onChangeCalls) >= 2
    /\ lastExternalValue = htmlToMarkdown(content)

----------------------------------------------------------------------------
(* parseInlineMarkdown (lib/docx-generator.ts)                             *)

Drop(s, n) == SubSeq(s, n + 1, Len(s))

Min(S) == CHOOSE x \in S : \A y \in S : x <= y

\* new TextRun({ text, bold, italics, size, color }); size 0: not given
TextRun(t, b, i, sz, col) ==
    [text |-> t, bold |-> b, italics |-> i, size |-> sz, color |-> col]

\* new TextRun({ text, size: 20, color: '000000' })
PlainRun(t) == TextRun(t, FALSE, FALSE, 20, "000000")
\* new TextRun({ text, bold: true, size: 20, color: '000000' })
BoldRun(t) == TextRun(t, TRUE, FALSE, 20, "000000")
\* new TextRun({ text, italics: true, size: 20, color: '000000' })
ItalicRun(t) == TextRun(t, FALSE, TRUE, 20, "000000")

NoMatch == [found |-> FALSE]

\* remaining.match(/^(.*?)DD(.+?)DD/) for the delimiter character d:
\* the lazy prefix stops at the first DD that has a closing DD at least one
\* character further, the lazy inner group at the first such closing DD.
BoldMatchOf(s, d) ==
    LET Closes(i) == {j \in (i + 3)..(Len(s) - 1) : s[j] = d /\ s[j + 1] = d}
        Opens == {i \in 1..(Len(s) - 1) :
                     s[i] = d /\ s[i + 1] = d /\ Closes(i) # {}}
    IN  IF Opens = {} THEN NoMatch
        ELSE LET i == Min(Opens)
                 j == Min(Closes(i))
             IN  [found |-> TRUE, type |-> "bold", index |-> i - 1,
                  before |-> SubSeq(s, 1, i - 1),
                  inner |-> SubSeq(s, i + 2, j - 1),
                  length |-> j + 1]

\* the italic pattern without its two lookarounds: /^(.*?)D([^D]+)D/
ItalicMatchNoLookaround(s, d) ==
    LET Close(i) == {j \in (i + 2)..Len(s) :
                        /\ s[j] = d
                        /\ \A k \in (i + 1)..(j - 1) : s[k] # d}
        Opens == {i \in 1..Len(s) : s[i] = d /\ Close(i) # {}}
    IN  IF Opens = {} THEN NoMatch
        ELSE LET i == Min(Opens)
                 j == Min(Close(i))
             IN  [found |-> TRUE, type |-> "italic", index |-> i - 1,
                  before |-> SubSeq(s, 1, i - 1),
                  inner |-> SubSeq(s, i + 1, j - 1),
                  length |-> j]

\* an italic pattern whose inner group may hold the delimiter and that has
\* no lookbehind: /^(.*?)D(.+?)D/
ItalicMatchAnyInner(s, d) ==
    LET Close(i) == {j \in (i + 2)..Len(s) : s[j] = d}
        Opens == {i \in 1..Len(s) : s[i] = d /\ Close(i) # {}}
    IN  IF Opens = {} THEN NoMatch
        ELSE LET i == Min(Opens)
                 j == Min(Close(i))
             IN  [found |-> TRUE, type |-> "italic", index |-> i - 1,
                  before |-> SubSeq(s, 1, i - 1),
                  inner |-> SubSeq(s, i + 1, j - 1),
                  length |-> j]

\* remaining.match(/^(.*?)(?<!D)D([^D]+)D(?!D)/) for the delimiter d: the
\* opening D is not preceded by D, the inner group holds no D, so the
\* closing D is the first D after the opening one, and it is not followed
\* by D.
ItalicMatchOf(s, d) ==
    LET Close(i) == {j \in (i + 2)..Len(s) :
                        /\ s[j] = d
                        /\ \A k \in (i + 1)..(j - 1) : s[k] # d
                        /\ (j = Len(s) \/ s[j + 1] # d)}
        Opens == {i \in 1..Len(s) :
                     /\ s[i] = d
                     /\ (i = 1 \/ s[i - 1] # d)
                     /\ Close(i) # {}}
    IN  IF Opens = {} THEN NoMatch
        ELSE LET i == Min(Opens)
                 j == Min(Close(i))
             IN  [found |-> TRUE, type |-> "italic", index |-> i - 1,
                  before |-> SubSeq(s, 1, i - 1),
                  inner |-> SubSeq(s, i + 1, j - 1),
                  length |-> j]

boldMatch(s)    == BoldMatchOf(s, "*")
boldMatch2(s)   == BoldMatchOf(s, "_")
italicMatch(s)  == ItalicMatchOf(s, "*")
italicMatch2(s) == ItalicMatchOf(s, "_")

\* const candidates = [ ... ].filter(Boolean)
candidates(s) ==
    SelectSeq(<<boldMatch(s), boldMatch2(s), italicMatch(s), italicMatch2(s)>>,
              LAMBDA c : c.found)

\* candidates[0] when the array is left unsorted
firstUnsorted(cs) == cs[1]

\* candidates.sort((a, b) => a.index - b.index); firstMatch = candidates[0]
\* (Array.prototype.sort is stable: among equal indexes the array order,
\* bold before italic, is kept)
firstSorted(cs) ==
    LET least == Min({cs[k].index : k \in 1..Len(cs)})
        k0 == Min({k \in 1..Len(cs) : cs[k].index = least})
    IN  cs[k0]

\* the runs pushed for a selected span, the text before it forgotten
matchRunsNoBefore(rs, m) ==
    Append(rs, IF m.type = "bold" THEN BoldRun(m.inner) ELSE ItalicRun(m.inner))

\* the runs pushed for a selected span (lines 250-264)
matchRuns(rs, m) ==
    LET withBefore == IF m.before # <<>> THEN Append(rs, PlainRun(m.before))
                      ELSE rs
    IN  Append(withBefore,
               IF m.type = "bold" THEN BoldRun(m.inner) ELSE ItalicRun(m.inner))

\* the else branch pushing the text after its first character
restRunsDropsChar(rs, rem) == Append(rs, PlainRun(Tail(rem)))

\* the else branch (lines 268-271): the rest as one plain run
restRuns(rs, rem) == Append(rs, PlainRun(rem))

\* the truncation removing the text before the span and two characters
truncateShort(rem, m) == Drop(rem, m.index + 2)

\* remaining = remaining.substring(match[0].length)
truncate(rem, m) == Drop(rem, m.length)

\* return runs.length > 0 ? runs : [new TextRun({ text: text, ... })]
returnRuns(rs, text) == IF Len(rs) > 0 THEN rs ELSE <<PlainRun(text)>>

\* one iteration of the while loop that selects a span
InlineMatchStep ==
    /\ inPc = "loop"
    /\ Len(remaining) > 0
    /\ \E cs \in {candidates(remaining)} :
         /\ cs # <<>>
         /\ \E m \in {firstSorted(cs)} :
              \E off \in {Len(inText) - Len(remaining)} :
                /\ runs' = matchRuns(runs, m)
                /\ remaining' = truncate(remaining, m)
                /\ inSel' = m
                /\ inCands' = {cs[k] : k \in 1..Len(cs)}
                /\ italicDelims' =
                      IF m.type = "italic"
                      THEN italicDelims
                               \cup {off + m.index + 1, off + m.length}
                      ELSE italicDelims
    /\ UNCHANGED <<inText, inPc>>

\* the iteration that finds no span: push the rest, break, return
InlineRestStep ==
    /\ inPc = "loop"
    /\ Len(remaining) > 0
    /\ candidates(remaining) = <<>>
    /\ runs' = returnRuns(restRuns(runs, remaining), inText)
    /\ inPc' = "done"
    /\ inSel' = NoMatch
    /\ inCands' = {}
    /\ UNCHANGED <<inText, remaining, italicDelims>>

\* the loop condition fails: return
InlineReturn ==
    /\ inPc = "loop"
    /\ Len(remaining) = 0
    /\ runs' = returnRuns(runs, inText)
    /\ inPc' = "done"
    /\ UNCHANGED <<inText, remaining, inSel, inCands, italicDelims>>

InlineChars == {"*", "_", "a"}

Ex_BoldAndItalic ==
    <<"*", "*", "b", "o", "l", "d", "*", "*", " ", "a", "n", "d", " ",
      "*", "i", "t", "a", "l", "i", "c", "*">>

InlineTexts ==
    UNION {[1..n -> InlineChars] : n \in 0..MaxInline} \cup {Ex_BoldAndItalic}

InitInline ==
    /\ inText \in InlineTexts
    /\ remaining = inText
    /\ runs = <<>>
    /\ inPc = "loop"
    /\ inSel = NoMatch
    /\ inCands = {}
    /\ italicDelims = {}
    \* no editor is mounted, parseMarkdownToParagraphs is not running
    /\ editor = FALSE
    /\ value = ""
    /\ isUpdatingFromProp = FALSE
    /\ lastExternalValue = ""
    /\ content = "<p></p>"
    /\ pendingClears = 0
    /\ onChangeCalls = <<>>
    /\ echoes = <<>>
    /\ lastOp = "init"
    /\ lastLoaded = ""
    /\ afterDrop = FALSE
    /\ mdText = <<>>
    /\ mdLines = <<>>
    /\ mdIdx = 0
    /\ currentListNumber = 0
    /\ paragraphs = <<>>
    /\ mdPc = "done"
    \* generateIncidentReportDocx is not running
    /\ data = [datePrepared |-> <<>>, attachments |-> <<>>,
               impactCategories |-> <<>>, impactOthersSpecify |-> <<>>,
               findings |-> <<>>, policyViolation |-> <<>>]
    /\ hostTz = 0
    /\ genPc = "idle"
    /\ netState = "none"
    /\ logoBuffer = "null"
    /\ doc = [built |-> FALSE]
    \* the form page is not mounted
    /\ attachments = <<>>
    /\ nextId = 1
    /\ findings = ""
    /\ enhancingField = [kind |-> "null", id |-> 0]
    /\ requests = <<>>
    /\ formOp = [op |-> "init"]
    /\ impactCategories = <<>>
    /\ impactOthersSpecify = ""
    /\ impactOp = [op |-> "init"]

NextInline ==
    \/ InlineMatchStep /\ UNCHANGED <<syncVars, mdVars, docVars, enhVars, impVars>>
    \/ InlineRestStep /\ UNCHANGED <<syncVars, mdVars, docVars, enhVars, impVars>>
    \/ InlineReturn /\ UNCHANGED <<syncVars, mdVars, docVars, enhVars, impVars>>

SpecInline == InitInline /\ [][NextInline]_vars

\* parseInlineMarkdown(text) is entered: let remaining = text
InlineCall ==
    /\ inPc = "call"
    /\ inText' \in InlineTexts
    /\ remaining' = inText'
    /\ inPc' = "loop"
    /\ UNCHANGED <<runs, inSel, inCands, italicDelims>>

\* parseInlineMarkdown has not been called yet
InitInlineCall ==
    /\ inText = <<>>
    /\ remaining = <<>>
    /\ runs = <<>>
    /\ inPc = "call"
    /\ inSel = NoMatch
    /\ inCands = {}
    /\ italicDelims = {}
    \* no editor is mounted, parseMarkdownToParagraphs is not running
    /\ editor = FALSE
    /\ value = ""
    /\ isUpdatingFromProp = FALSE
    /\ lastExternalValue = ""
    /\ content = "<p></p>"
    /\ pendingClears = 0
    /\ onChangeCalls = <<>>
    /\ echoes = <<>>
    /\ lastOp = "init"
    /\ lastLoaded = ""
    /\ afterDrop = FALSE
    /\ mdText = <<>>
    /\ mdLines = <<>>
    /\ mdIdx = 0
    /\ currentListNumber = 0
    /\ paragraphs = <<>>
    /\ mdPc = "done"
    \* generateIncidentReportDocx is not running
    /\ data = [datePrepared |-> <<>>, attachments |-> <<>>,
               impactCategories |-> <<>>, impactOthersSpecify |-> <<>>,
               findings |-> <<>>, policyViolation |-> <<>>]
    /\ hostTz = 0
    /\ genPc = "idle"
    /\ netState = "none"
    /\ logoBuffer = "null"
    /\ doc = [built |-> FALSE]
    \* the form page is not mounted
    /\ attachments = <<>>
    /\ nextId = 1
    /\ findings = ""
    /\ enhancingField = [kind |-> "null", id |-> 0]
    /\ requests = <<>>
    /\ formOp = [op |-> "init"]
    /\ impactCategories = <<>>
    /\ impactOthersSpecify = ""
    /\ impactOp = [op |-> "init"]

NextInlineCall ==
    \/ InlineCall /\ UNCHANGED <<syncVars, mdVars, docVars, enhVars, impVars>>
    \/ InlineMatchStep /\ UNCHANGED <<syncVars, mdVars, docVars, enhVars, impVars>>
    \/ InlineRestStep /\ UNCHANGED <<syncVars, mdVars, docVars, enhVars, impVars>>
    \/ InlineReturn /\ UNCHANGED <<syncVars, mdVars, docVars, enhVars, impVars>>

\* The call and the loop are synchronous code: a step that can run does run.
SpecInlineFair ==
    InitInlineCall /\ [][NextInlineCall]_vars /\ WF_vars(NextInlineCall)

\* C9: a non-empty line in which none of the four patterns matches yields
\* exactly one plain run whose text is the line.
C9_UnmatchedLineIsOnePlainRun ==
    (inPc = "done" /\ inText # <<>> /\ candidates(inText) = <<>>)
        => runs = <<PlainRun(inText)>>

\* C9 witness: a finished line that holds delimiters, none of them matched.
C9_Witness ==
    /\ inPc = "done" /\ candidates(inText) = <<>>
    /\ \E i, j \in 1..Len(inText) : inText[i] = "*" /\ inText[j] = "_"
    /\ runs = <<PlainRun(inText)>>

\* C10: every iteration selects a candidate whose opening delimiter is the
\* earliest among the candidates, a bold one when a bold and an italic one
\* open at the same offset; '**bold** and *italic*' yields bold 'bold',
\* plain ' and ', italic 'italic'.
C10_EarliestSpanSelected ==
    /\ inSel.found =>
          /\ inSel \in inCands
          /\ \A c \in inCands :
                /\ inSel.index <= c.index
                /\ (c.index = inSel.index /\ c.type = "bold")
                      => inSel.type = "bold"
    /\ (inPc = "done" /\ inText = Ex_BoldAndItalic) =>
          runs = <<BoldRun(<<"b", "o", "l", "d">>),
                   PlainRun(<<" ", "a", "n", "d", " ">>),
                   ItalicRun(<<"i", "t", "a", "l", "i", "c">>)>>

\* C10 witness: an iteration had a bold and an italic candidate and took
\* the italic one because it opens first.
C10_Witness ==
    /\ inSel.found /\ inSel.type = "italic"
    /\ \E c \in inCands : c.type = "bold" /\ c.index > inSel.index

----------------------------------------------------------------------------
(* parseMarkdownToParagraphs (lib/docx-generator.ts)                       *)

\* parseInlineMarkdown as a function: the while loop run to its return
RECURSIVE inlineLoop(_, _, _)
inlineLoop(rem, rs, text) ==
    IF Len(rem) = 0 THEN returnRuns(rs, text)
    ELSE LET cs == candidates(rem)
         IN  IF cs # <<>>
             THEN LET m == firstSorted(cs)
                  IN  inlineLoop(Drop(rem, m.length), matchRuns(rs, m), text)
             ELSE returnRuns(restRuns(rs, rem), text)

parseInlineMarkdown(text) == inlineLoop(text, <<>>, text)

IsSpace(c) == c \in {" ", "\n", "\t"}
IsDigit(c) == c \in {"0", "1", "2", "3", "4", "5", "6", "7", "8", "9"}
LowerOf == [c \in {"A", "B", "a", "b", "p", "x"} |->
              IF c = "A" THEN "a" ELSE IF c = "B" THEN "b" ELSE c]
IsLetter(c) == c \in DOMAIN LowerOf
toLowerCase(c) == LowerOf[c]

\* String.prototype.trim
RECURSIVE TrimLeft(_)
TrimLeft(s) == IF s # <<>> /\ IsSpace(s[1]) THEN TrimLeft(Tail(s)) ELSE s
RECURSIVE TrimRight(_)
TrimRight(s) ==
    IF s # <<>> /\ IsSpace(s[Len(s)])
    THEN TrimRight(SubSeq(s, 1, Len(s) - 1)) ELSE s
Trim(s) == TrimRight(TrimLeft(s))

\* String.prototype.startsWith
startsWith(s, pre) == Len(s) >= Len(pre) /\ SubSeq(s, 1, Len(pre)) = pre

\* text.split('\n')
RECURSIVE SplitFrom(_, _)
SplitFrom(s, cur) ==
    IF s = <<>> THEN <<cur>>
    ELSE IF s[1] = "\n" THEN <<cur>> \o SplitFrom(Tail(s), <<>>)
    ELSE SplitFrom(Tail(s), Append(cur, s[1]))
\* text.split('\n') with the empty lines filtered out
splitSkipsEmpty(s) == SelectSeq(SplitFrom(s, <<>>), LAMBDA l : l # <<>>)

split(s) == SplitFrom(s, <<>>)

\* the text whose lines are ls
RECURSIVE JoinLines(_)
JoinLines(ls) ==
    IF ls = <<>> THEN <<>>
    ELSE IF Len(ls) = 1 THEN ls[1]
    ELSE ls[1] \o <<"\n">> \o JoinLines(Tail(ls))

\* `${n}` for a non-negative integer
DigitChar == <<"0", "1", "2", "3", "4", "5", "6", "7", "8", "9">>
RECURSIVE NumChars(_)
NumChars(n) ==
    IF n < 10 THEN <<DigitChar[n + 1]>>
    ELSE Append(NumChars(n \div 10), DigitChar[(n % 10) + 1])

\* length of the longest prefix of s made of digits (\d+)
RECURSIVE LeadDigits(_)
LeadDigits(s) ==
    IF s # <<>> /\ IsDigit(s[1]) THEN 1 + LeadDigits(Tail(s)) ELSE 0

\* length of the longest prefix of s made of white space (\s+)
RECURSIVE LeadSpaces(_)
LeadSpaces(s) ==
    IF s # <<>> /\ IsSpace(s[1]) THEN 1 + LeadSpaces(Tail(s)) ELSE 0

\* Number(m[1]) for the captured digits
RECURSIVE DigitsValue(_)
DigitsValue(ds) ==
    IF ds = <<>> THEN 0
    ELSE 10 * DigitsValue(SubSeq(ds, 1, Len(ds) - 1))
         + ((CHOOSE k \in 1..10 : DigitChar[k] = ds[Len(ds)]) - 1)

\* trimmedLine.match(/^(\d+)\.\s+(.*)$/): the digits, a dot, at least one
\* white-space character; group 2 is what follows the white space
numberedMatch(s) ==
    LET nd   == LeadDigits(s)
        rest == Drop(s, nd + 1)
        nw   == LeadSpaces(rest)
    IN  IF nd >= 1 /\ Len(s) > nd /\ s[nd + 1] = "." /\ nw >= 1
        THEN [found |-> TRUE, digits |-> SubSeq(s, 1, nd),
              content |-> Drop(rest, nw)]
        ELSE [found |-> FALSE]

\* trimmedLine.match(/^([a-z])[.)]\s+(.*)$/i)
subItemMatch(s) ==
    LET rest == Drop(s, 2)
        nw   == LeadSpaces(rest)
    IN  IF Len(s) >= 2 /\ IsLetter(s[1]) /\ s[2] \in {".", ")"} /\ nw >= 1
        THEN [found |-> TRUE, letter |-> s[1], content |-> Drop(rest, nw)]
        ELSE [found |-> FALSE]

\* new Paragraph({ children, bullet, indent: { left }, spacing })
\* indent in twips (convertInchesToTwip(0.25) = 360)
Paragraph(ch, bul, ind, bef, aft) ==
    [children |-> ch, bullet |-> bul, indent |-> ind,
     before |-> bef, after |-> aft]

NoContentText ==
    <<"N", "o", " ", "c", "o", "n", "t", "e", "n", "t", " ",
      "p", "r", "o", "v", "i", "d", "e", "d">>

\* the block returned for an empty text (lines 106-108)
PlaceholderParagraph ==
    Paragraph(<<TextRun(NoContentText, FALSE, TRUE, 20, "9ca3af")>>,
              FALSE, 0, 0, 0)

\* new TextRun({ text: ..., bold: true, size, color: '000000' }) of a heading
HeadingRun(t, sz) == TextRun(t, TRUE, FALSE, sz, "000000")

\* the guard of the early return, testing only !text
isEmptyTextNoTrim(text) == text = <<>>

\* !text || !text.trim()
isEmptyText(text) == text = <<>> \/ Trim(text) = <<>>

\* the ordinal taken from the digits of the source line
orderedNumberFromSource(counter, m) == DigitsValue(m.digits)

\* currentListNumber++ : the ordinal of an ordered line
orderedNumber(counter, m) == counter + 1

\* the sub-item branch resetting the counter like the bullet branch
subItemCounterReset(counter) == 0

\* the sub-item branch (lines 193-206) does not assign currentListNumber
subItemCounter(counter) == counter

\* the if-chain without the '# ' test
lineBranchNoH1(t) ==
    IF t = <<>> THEN "blank"
    ELSE IF startsWith(t, <<"#", "#", "#", " ">>) THEN "h3"
    ELSE IF startsWith(t, <<"#", "#", " ">>) THEN "h2"
    ELSE IF startsWith(t, <<"-", " ">>) \/ startsWith(t, <<"*", " ">>)
         THEN "bullet"
    ELSE IF numberedMatch(t).found THEN "numbered"
    ELSE IF subItemMatch(t).found THEN "subItem"
    ELSE "paragraph"

\* the branch of the forEach callback taken for trimmedLine t: the first
\* if-statement whose condition holds
lineBranch(t) ==
    IF t = <<>> THEN "blank"
    ELSE IF startsWith(t, <<"#", "#", "#", " ">>) THEN "h3"
    ELSE IF startsWith(t, <<"#", "#", " ">>) THEN "h2"
    ELSE IF startsWith(t, <<"#", " ">>) THEN "h1"
    ELSE IF startsWith(t, <<"-", " ">>) \/ startsWith(t, <<"*", " ">>)
         THEN "bullet"
    ELSE IF numberedMatch(t).found THEN "numbered"
    ELSE IF subItemMatch(t).found THEN "subItem"
    ELSE "paragraph"

\* the forEach callback: the paragraph pushed for `line` and the value of
\* currentListNumber after it
processLine(line, counter) ==
    LET t  == Trim(line)
        br == lineBranch(t)
    IN  CASE br = "blank" ->
               [para |-> Paragraph(<<>>, FALSE, 0, 0, 100),
                counter |-> counter]
          [] br = "h3" ->
               [para |-> Paragraph(<<HeadingRun(Drop(t, 4), 22)>>,
                                   FALSE, 0, 150, 80),
                counter |-> counter]
          [] br = "h2" ->
               [para |-> Paragraph(<<HeadingRun(Drop(t, 3), 24)>>,
                                   FALSE, 0, 200, 100),
                counter |-> counter]
          [] br = "h1" ->
               [para |-> Paragraph(<<HeadingRun(Drop(t, 2), 28)>>,
                                   FALSE, 0, 250, 120),
                counter |-> counter]
          [] br = "bullet" ->
               [para |-> Paragraph(parseInlineMarkdown(Drop(t, 2)),
                                   TRUE, 0, 0, 60),
                counter |-> 0]
          [] br = "numbered" ->
               LET m == numberedMatch(t)
                   n == orderedNumber(counter, m)
               IN  [para |-> Paragraph(
                        <<TextRun(NumChars(n) \o <<".", " ">>,
                                  TRUE, FALSE, 0, "000000")>>
                          \o parseInlineMarkdown(m.content),
                        FALSE, 360, 0, 60),
                    counter |-> n]
          [] br = "subItem" ->
               LET m == subItemMatch(t)
               IN  [para |-> Paragraph(
                        <<TextRun(<<toLowerCase(m.letter), ".", " ">>,
                                  FALSE, FALSE, 0, "000000")>>
                          \o parseInlineMarkdown(m.content),
                        FALSE, 720, 0, 60),
                    counter |-> subItemCounter(counter)]
          [] OTHER ->
               [para |-> Paragraph(parseInlineMarkdown(t), FALSE, 0, 0, 80),
                counter |-> 0]

\* lines 105-109: the early return
MdPlaceholder ==
    /\ mdPc = "start"
    /\ isEmptyText(mdText)
    /\ paragraphs' = <<PlaceholderParagraph>>
    /\ mdPc' = "done"
    /\ UNCHANGED <<mdText, mdLines, mdIdx, currentListNumber>>

\* lines 111-113
MdSplit ==
    /\ mdPc = "start"
    /\ ~isEmptyText(mdText)
    /\ paragraphs' = <<>>
    /\ mdLines' = split(mdText)
    /\ currentListNumber' = 0
    /\ mdIdx' = 0
    /\ mdPc' = "lines"
    /\ UNCHANGED mdText

\* one call of the forEach callback
MdLine ==
    /\ mdPc = "lines"
    /\ mdIdx < Len(mdLines)
    /\ LET r == processLine(mdLines[mdIdx + 1], currentListNumber)
       IN  /\ paragraphs' = Append(paragraphs, r.para)
           /\ currentListNumber' = r.counter
    /\ mdIdx' = mdIdx + 1
    /\ UNCHANGED <<mdText, mdLines, mdPc>>

\* line 216: return paragraphs
MdReturn ==
    /\ mdPc = "lines"
    /\ mdIdx = Len(mdLines)
    /\ mdPc' = "done"
    /\ UNCHANGED <<mdText, mdLines, mdIdx, currentListNumber, paragraphs>>

\* Lines a markdown text is made of
L_Empty     == <<>>
L_Spaces    == <<" ", " ">>
L_One       == <<"1", ".", " ", "A">>
L_Five      == <<" ", "5", ".", " ", " ", "B">>
L_Bullet    == <<"-", " ", "x">>
L_Star      == <<"*", " ", "*", "x", "*">>
L_H1Num     == <<"#", " ", "1", ".", " ", "A">>
L_H1Bold    == <<"#", " ", "*", "*", "a", "*", "*", " ", "b">>
L_H2        == <<"#", "#", " ", "A">>
L_H3        == <<"#", "#", "#", " ", "A">>
L_Sub       == <<"a", ".", " ", "x">>
L_SubParen  == <<"B", ")", " ", "x">>
L_Para      == <<"p", " ", "x">>
L_DotOnly   == <<"1", ".">>

MdLineSet == {L_Empty, L_Spaces, L_One, L_Five, L_Bullet, L_Star, L_H1Num,
              L_H1Bold, L_H2, L_H3, L_Sub, L_SubParen, L_Para, L_DotOnly}

MdTexts == {JoinLines(ls) : ls \in UNION {[1..n -> MdLineSet] : n \in 0..MaxLines}}

InitMd ==
    /\ mdText \in MdTexts
    /\ mdLines = <<>>
    /\ mdIdx = 0
    /\ currentListNumber = 0
    /\ paragraphs = <<>>
    /\ mdPc = "start"
    \* no editor is mounted, parseInlineMarkdown is not running
    /\ editor = FALSE
    /\ value = ""
    /\ isUpdatingFromProp = FALSE
    /\ lastExternalValue = ""
    /\ content = "<p></p>"
    /\ pendingClears = 0
    /\ onChangeCalls = <<>>
    /\ echoes = <<>>
    /\ lastOp = "init"
    /\ lastLoaded = ""
    /\ afterDrop = FALSE
    /\ inText = <<>>
    /\ remaining = <<>>
    /\ runs = <<>>
    /\ inPc = "done"
    /\ inSel = [found |-> FALSE]
    /\ inCands = {}
    /\ italicDelims = {}
    \* generateIncidentReportDocx is not running
    /\ data = [datePrepared |-> <<>>, attachments |-> <<>>,
               impactCategories |-> <<>>, impactOthersSpecify |-> <<>>,
               findings |-> <<>>, policyViolation |-> <<>>]
    /\ hostTz = 0
    /\ genPc = "idle"
    /\ netState = "none"
    /\ logoBuffer = "null"
    /\ doc = [built |-> FALSE]
    \* the form page is not mounted
    /\ attachments = <<>>
    /\ nextId = 1
    /\ findings = ""
    /\ enhancingField = [kind |-> "null", id |-> 0]
    /\ requests = <<>>
    /\ formOp = [op |-> "init"]
    /\ impactCategories = <<>>
    /\ impactOthersSpecify = ""
    /\ impactOp = [op |-> "init"]

NextMd ==
    \/ MdPlaceholder /\ UNCHANGED <<syncVars, inVars, docVars, enhVars, impVars>>
    \/ MdSplit /\ UNCHANGED <<syncVars, inVars, docVars, enhVars, impVars>>
    \/ MdLine /\ UNCHANGED <<syncVars, inVars, docVars, enhVars, impVars>>
    \/ MdReturn /\ UNCHANGED <<syncVars, inVars, docVars, enhVars, impVars>>

SpecMd == InitMd /\ [][NextMd]_vars

----------------------------------------------------------------------------
(* Claims about parseMarkdownToParagraphs (SpecMd)                         *)

\* the kind of block a rendered paragraph shows
BlockKind(p) ==
    IF p.children = <<>> THEN "Blank"
    ELSE IF p.children[1].size = 28 THEN "Heading1"
    ELSE IF p.children[1].size = 24 THEN "Heading2"
    ELSE IF p.children[1].size = 22 THEN "Heading3"
    ELSE IF p.bullet THEN "Bullet"
    ELSE IF p.indent = 360 THEN "Ordered"
    ELSE IF p.indent = 720 THEN "LetteredSub"
    ELSE "Paragraph"

\* the lines whose blocks have been rendered by the forEach loop
Rendered == IF mdPc \in {"lines", "done"} /\ mdLines # <<>>
            THEN 1..Len(paragraphs) ELSE {}

\* the text of the "<n>. " prefix run
OrdinalPrefix(n) == NumChars(n) \o <<".", " ">>

\* C5: the result is never empty, and for a text that trims to nothing it
\* is exactly the one placeholder block.
C5_NeverEmptyResult ==
    mdPc = "done" =>
        /\ Len(paragraphs) >= 1
        /\ Trim(mdText) = <<>> => paragraphs = <<PlaceholderParagraph>>

\* C5 witness: a white-space-only text returned the placeholder.
C5_Witness ==
    /\ mdPc = "done" /\ mdText # <<>> /\ Trim(mdText) = <<>>
    /\ paragraphs = <<PlaceholderParagraph>>

\* C6 as claimed: an Ordered block that is first or directly follows a
\* block of any other kind renders ordinal 1.
C6_RestartAfterAnyOtherKind ==
    \A i \in Rendered :
        (/\ BlockKind(paragraphs[i]) = "Ordered"
         /\ (i = 1 \/ BlockKind(paragraphs[i - 1]) # "Ordered"))
            => paragraphs[i].children[1].text = OrdinalPrefix(1)

\* C7: an Ordered line renders the counter's prior value plus one, whatever
\* digits it carries: consecutive Ordered blocks count up by one, and '5.'
\* right after '1.' renders '2. '.
C7_OrdinalIsCounter ==
    /\ [][(mdPc = "lines" /\ mdIdx < Len(mdLines)
            /\ numberedMatch(Trim(mdLines[mdIdx + 1])).found)
          => /\ currentListNumber' = currentListNumber + 1
             /\ paragraphs'[Len(paragraphs')].children[1].text
                   = OrdinalPrefix(currentListNumber + 1)]_vars
    /\ [](\A i \in Rendered :
            (/\ i > 1
             /\ BlockKind(paragraphs[i]) = "Ordered"
             /\ BlockKind(paragraphs[i - 1]) = "Ordered")
            => \E n \in 1..Len(mdLines) :
                  /\ paragraphs[i - 1].children[1].text = OrdinalPrefix(n)
                  /\ paragraphs[i].children[1].text = OrdinalPrefix(n + 1))

\* C7 witness: '1. A' followed by ' 5.  B' rendered '1. ' and '2. '.
C7_Witness ==
    /\ mdPc = "done" /\ mdLines = <<L_One, L_Five>>
    /\ paragraphs[1].children[1].text = OrdinalPrefix(1)
    /\ paragraphs[2].children[1].text = OrdinalPrefix(2)

\* the rules of the block classifier in their order of precedence
RuleApplies(k, t) ==
    CASE k = 1 -> t = <<>>
      [] k = 2 -> startsWith(t, <<"#", "#", "#", " ">>)
      [] k = 3 -> startsWith(t, <<"#", "#", " ">>)
      [] k = 4 -> startsWith(t, <<"#", " ">>)
      [] k = 5 -> startsWith(t, <<"-", " ">>) \/ startsWith(t, <<"*", " ">>)
      [] k = 6 -> numberedMatch(t).found
      [] k = 7 -> subItemMatch(t).found
      [] OTHER -> TRUE

RuleKind == <<"Blank", "Heading3", "Heading2", "Heading1", "Bullet",
              "Ordered", "LetteredSub", "Paragraph">>

FirstRule(t) == Min({k \in 1..8 : RuleApplies(k, t)})

\* C8: every line is rendered as the kind of the first rule that applies
\* to it; a line starting with '# ' is rendered as Heading1 and leaves the
\* list counter as it was.
C8_FirstRuleWins ==
    /\ [](\A i \in Rendered :
            LET t == Trim(mdLines[i])
            IN  /\ BlockKind(paragraphs[i]) = RuleKind[FirstRule(t)]
                /\ startsWith(t, <<"#", " ">>)
                      => BlockKind(paragraphs[i]) = "Heading1")
    /\ [][(mdPc = "lines" /\ mdIdx < Len(mdLines)
            /\ startsWith(Trim(mdLines[mdIdx + 1]), <<"#", " ">>))
          => currentListNumber' = currentListNumber]_vars

\* C8 witness: '# 1. A' after an ordered line is rendered as Heading1 and
\* the counter still reads 1.
C8_Witness ==
    /\ mdPc = "done" /\ mdLines = <<L_One, L_H1Num>>
    /\ BlockKind(paragraphs[2]) = "Heading1"
    /\ currentListNumber = 1

----------------------------------------------------------------------------
(* Further claims about parseMarkdownToParagraphs (SpecMd)                 *)

\* number of line breaks in a text
RECURSIVE NewlineCount(_)
NewlineCount(s) ==
    IF s = <<>> THEN 0
    ELSE (IF s[1] = "\n" THEN 1 ELSE 0) + NewlineCount(Tail(s))

\* C11: a text that does not trim to nothing yields one block per line,
\* empty lines included, in source order; the i-th block is the block of
\* the i-th line (for some value of the threaded counter) and has the kind
\* of the one rule that classifies that line.
C11_OneBlockPerLine ==
    (mdPc = "done" /\ Trim(mdText) # <<>>) =>
        /\ Len(paragraphs) = NewlineCount(mdText) + 1
        /\ Len(mdLines) = Len(paragraphs)
        /\ JoinLines(mdLines) = mdText
        /\ \A i \in 1..Len(paragraphs) :
              /\ \E c \in 0..Len(mdLines) :
                    paragraphs[i] = processLine(mdLines[i], c).para
              /\ BlockKind(paragraphs[i]) = RuleKind[FirstRule(Trim(mdLines[i]))]
              /\ Cardinality({k \in 1..7 : RuleApplies(k, Trim(mdLines[i]))}) <= 1

\* C11 witness: three lines, the middle one empty, gave three blocks.
C11_Witness ==
    /\ mdPc = "done" /\ Len(mdLines) = 3 /\ mdLines[2] = <<>>
    /\ Len(paragraphs) = 3
    /\ BlockKind(paragraphs[1]) = "Ordered"
    /\ BlockKind(paragraphs[2]) = "Blank"

\* C18 as claimed: an Ordered block that directly follows a Blank or a
\* Heading block renders ordinal 1.
C18_BlankAndHeadingReset ==
    \A i \in Rendered :
        (/\ i > 1
         /\ BlockKind(paragraphs[i]) = "Ordered"
         /\ BlockKind(paragraphs[i - 1])
               \in {"Blank", "Heading1", "Heading2", "Heading3"})
            => paragraphs[i].children[1].text = OrdinalPrefix(1)

\* C19: a lettered sub-item leaves the list counter as it was and renders
\* its letter lower-cased followed by '. '; an Ordered block after Ordered
\* blocks and sub-items only continues the numbering.
C19_SubItemKeepsCounter ==
    /\ [][(mdPc = "lines" /\ mdIdx < Len(mdLines)
            /\ RuleKind[FirstRule(Trim(mdLines[mdIdx + 1]))] = "LetteredSub")
          => /\ currentListNumber' = currentListNumber
             /\ BlockKind(paragraphs'[Len(paragraphs')]) = "LetteredSub"]_vars
    /\ [](\A i \in Rendered :
            /\ (mdLines[i] = L_Sub)
                  => paragraphs[i].children[1].text = <<"a", ".", " ">>
            /\ (mdLines[i] = L_SubParen)
                  => paragraphs[i].children[1].text = <<"b", ".", " ">>
            /\ (/\ i > 2
                /\ BlockKind(paragraphs[i]) = "Ordered"
                /\ BlockKind(paragraphs[i - 1]) = "LetteredSub"
                /\ BlockKind(paragraphs[i - 2]) = "Ordered")
                  => \E n \in 1..Len(mdLines) :
                        /\ paragraphs[i - 2].children[1].text = OrdinalPrefix(n)
                        /\ paragraphs[i].children[1].text = OrdinalPrefix(n + 1))

\* C19 witness: '1. A', 'B) x', '1. A' rendered '1. ', 'b. ', '2. '.
C19_Witness ==
    /\ mdPc = "done" /\ mdLines = <<L_One, L_SubParen, L_One>>
    /\ paragraphs[2].children[1].text = <<"b", ".", " ">>
    /\ paragraphs[3].children[1].text = OrdinalPrefix(2)

----------------------------------------------------------------------------
(* Further claims about parseInlineMarkdown (SpecInline)                   *)

\* the texts of a sequence of runs, concatenated
RECURSIVE ConcatText(_)
ConcatText(rs) ==
    IF rs = <<>> THEN <<>> ELSE rs[1].text \o ConcatText(Tail(rs))

\* C20: an iteration that selects a span removes from the remaining text a
\* prefix made of the text before the span, the opening delimiter, the
\* inner text and the same closing delimiter (two characters each for
\* bold, one for italic) and adds exactly the text before and the inner
\* text to the runs; the last iteration adds the rest unchanged.
C20_OnlyDelimitersRemoved ==
    /\ [][(inPc = "loop" /\ inPc' = "loop") =>
            \E d \in {"*", "_"} :
              LET D == IF inSel'.type = "bold" THEN <<d, d>> ELSE <<d>>
              IN  /\ remaining = inSel'.before \o D \o inSel'.inner \o D
                                   \o remaining'
                  /\ ConcatText(runs') = ConcatText(runs) \o inSel'.before
                                           \o inSel'.inner]_vars
    /\ [][(inPc = "loop" /\ inPc' = "done") =>
            ConcatText(runs') = ConcatText(runs) \o remaining]_vars
    /\ [](inPc = "done" =>
            Len(inText) = Len(ConcatText(runs))
                          + 4 * Cardinality({k \in 1..Len(runs) : runs[k].bold})
                          + 2 * Cardinality({k \in 1..Len(runs) : runs[k].italics}))

\* C20 witness: a finished line in which a bold span and an italic span
\* were selected, with plain text before the italic one.
C20_Witness ==
    /\ inPc = "done" /\ Len(runs) >= 3
    /\ \E k \in 1..Len(runs) : runs[k].bold
    /\ \E k \in 1..Len(runs) : runs[k].italics
    /\ \E k \in 1..Len(runs) : ~runs[k].bold /\ ~runs[k].italics
    /\ Len(ConcatText(runs)) = Len(inText) - 6

----------------------------------------------------------------------------
(* Further claims about the editor sync controller                         *)

\* C16 as claimed: whenever the flag is clear and no clear is pending, the
\* surface holds lastExternalValue (its markdown is lastExternalValue, or
\* the document is the one lastExternalValue loads as).
C16_IdleSurfaceReflectsValue ==
    (editor /\ ~isUpdatingFromProp /\ pendingClears = 0) =>
        \/ htmlToMarkdown(content) = lastExternalValue
        \/ content = setContent(markdownToHtml(lastExternalValue))

\* C17 (SpecSyncFair): a load leaves the flag set and one more clear
\* pending; the flag is only ever set while a clear is pending; and a set
\* flag is eventually cleared.
C17_FlagEventuallyCleared ==
    /\ [][lastOp' \in {"load", "loadRaised"} =>
            /\ isUpdatingFromProp'
            /\ pendingClears' = pendingClears + 1]_vars
    /\ [](isUpdatingFromProp => pendingClears > 0)
    /\ (isUpdatingFromProp ~> ~isUpdatingFromProp)

\* C17 witness: the clear scheduled by a load has run and the flag is down.
C17_Witness ==
    /\ editor /\ lastOp = "clear"
    /\ ~isUpdatingFromProp /\ pendingClears = 0
    /\ lastExternalValue = lastLoaded /\ ~afterDrop

----------------------------------------------------------------------------
(* generateIncidentReportDocx (lib/docx-generator.ts)                      *)

NotSpecifiedText ==
    <<"N", "o", "t", " ", "s", "p", "e", "c", "i", "f", "i", "e", "d">>

Month_January ==
    <<"J", "a", "n", "u", "a", "r", "y">>

Month_February ==
    <<"F", "e", "b", "r", "u", "a", "r", "y">>

Month_March ==
    <<"M", "a", "r", "c", "h">>

Month_April ==
    <<"A", "p", "r", "i", "l">>

Month_May ==
    <<"M", "a", "y">>

Month_June ==
    <<"J", "u", "n", "e">>

Month_July ==
    <<"J", "u", "l", "y">>

Month_August ==
    <<"A", "u", "g", "u", "s", "t">>

Month_September ==
    <<"S", "e", "p", "t", "e", "m", "b", "e", "r">>

Month_October ==
    <<"O", "c", "t", "o", "b", "e", "r">>

Month_November ==
    <<"N", "o", "v", "e", "m", "b", "e", "r">>

Month_December ==
    <<"D", "e", "c", "e", "m", "b", "e", "r">>


\* the month names of the en-US locale ({ month: 'long' })
MonthName == <<Month_January, Month_February, Month_March, Month_April,
              Month_May, Month_June, Month_July, Month_August,
              Month_September, Month_October, Month_November, Month_December>>

IsLeapYear(y) == (y % 4 = 0 /\ y % 100 # 0) \/ y % 400 = 0

DaysInMonth(y, m) ==
    IF m = 2 THEN (IF IsLeapYear(y) THEN 29 ELSE 28)
    ELSE IF m \in {4, 6, 9, 11} THEN 30 ELSE 31

\* new Date('YYYY-MM-DD'): a date-only string is midnight UTC of that day
parseDateOnly(dateStr) ==
    [year  |-> DigitsValue(SubSeq(dateStr, 1, 4)),
     month |-> DigitsValue(SubSeq(dateStr, 6, 7)),
     day   |-> DigitsValue(SubSeq(dateStr, 9, 10)),
     hour  |-> 0]

\* the calendar day before (y, m, d)
dayBefore(dt) ==
    IF dt.day > 1 THEN [dt EXCEPT !.day = @ - 1]
    ELSE IF dt.month > 1
         THEN [dt EXCEPT !.month = @ - 1,
                         !.day = DaysInMonth(dt.year, dt.month - 1)]
         ELSE [dt EXCEPT !.year = @ - 1, !.month = 12, !.day = 31]

\* the host's wall clock at the UTC instant dt (tz in -23..23 hours): west
\* of Greenwich midnight UTC is still the evening of the day before
toLocalTime(dt, tz) ==
    IF dt.hour + tz < 0
    THEN [dayBefore(dt) EXCEPT !.hour = dt.hour + tz + 24]
    ELSE [dt EXCEPT !.hour = dt.hour + tz]

\* toLocaleDateString('en-US', { year: 'numeric', month: 'long',
\*                               day: 'numeric' })
toLocaleDateString(dt) ==
    MonthName[dt.month] \o <<" ">> \o NumChars(dt.day) \o <<",", " ">>
        \o NumChars(dt.year)

\* formatDate(dateStr) on a host whose zone is tz
formatDate(dateStr, tz) ==
    IF dateStr = <<>> THEN NotSpecifiedText
    ELSE toLocaleDateString(toLocalTime(parseDateOnly(dateStr), tz))

OthersText ==
    <<"O", "t", "h", "e", "r", "s">>
AttachmentText ==
    <<"A", "t", "t", "a", "c", "h", "m", "e", "n", "t", " ">>
NoAttachmentsText ==
    <<"N", "o", " ", "a", "t", "t", "a", "c", "h", "m", "e", "n", "t", "s">>
ImpactedPartiesText ==
    <<"I", "m", "p", "a", "c", "t", "e", "d", " ", "P", "a", "r", "t", "i",
      "e", "s", ":", " ">>
NoneSelectedText ==
    <<"N", "o", "n", "e", " ", "s", "e", "l", "e", "c", "t", "e", "d">>

\* the map callback of impactList, expanding 'Others' unconditionally
impactItemAlwaysExpands(cat, others) ==
    IF cat = OthersText THEN OthersText \o <<" ", "(">> \o others \o <<")">>
    ELSE cat

\* cat === 'Others' && data.impactOthersSpecify
\*    ? `Others (${data.impactOthersSpecify})` : cat
impactItem(cat, others) ==
    IF cat = OthersText /\ others # <<>>
    THEN OthersText \o <<" ", "(">> \o others \o <<")">>
    ELSE cat

\* Array.prototype.join(', ')
RECURSIVE joinComma(_)
joinComma(items) ==
    IF items = <<>> THEN <<>>
    ELSE IF Len(items) = 1 THEN items[1]
    ELSE items[1] \o <<",", " ">> \o joinComma(Tail(items))

\* const impactList = data.impactCategories.map(...).join(', ')
impactList(d) ==
    joinComma([k \in 1..Len(d.impactCategories) |->
                 impactItem(d.impactCategories[k], d.impactOthersSpecify)])

\* the first paragraph of the Impact box (lines 786-792)
impactParagraph(d) ==
    LET list == impactList(d)
    IN  Paragraph(
          <<TextRun(ImpactedPartiesText, TRUE, FALSE, 20, "000000"),
            TextRun(IF list # <<>> THEN list ELSE NoneSelectedText,
                    FALSE, list = <<>>, 20,
                    IF list # <<>> THEN "000000" ELSE "9ca3af")>>,
          FALSE, 0, 0, 120)

\* the runs of an attachment line with the description run always present
attachmentRunsAlwaysDash(att, n) ==
    <<TextRun(NumChars(n) \o <<".", " ">>, TRUE, FALSE, 20, "000000"),
      TextRun(IF att.nameOrLink # <<>> THEN att.nameOrLink
              ELSE AttachmentText \o NumChars(n), TRUE, FALSE, 20, "000000"),
      TextRun(<<" ", "em-dash", " ">> \o att.description,
              FALSE, FALSE, 20, "000000")>>

\* the runs of the n-th attachment line (lines 383-387, n = idx + 1);
\* "em-dash" stands for the character U+2014
attachmentRuns(att, n) ==
    <<TextRun(NumChars(n) \o <<".", " ">>, TRUE, FALSE, 20, "000000"),
      TextRun(IF att.nameOrLink # <<>> THEN att.nameOrLink
              ELSE AttachmentText \o NumChars(n), TRUE, FALSE, 20, "000000")>>
    \o (IF att.description # <<>>
        THEN <<TextRun(<<" ", "em-dash", " ">> \o att.description,
                       FALSE, FALSE, 20, "000000")>>
        ELSE <<>>)

\* const attachmentParagraphs (lines 380-394); 216 = convertInchesToTwip(0.15)
attachmentParagraphs(d) ==
    IF Len(d.attachments) > 0
    THEN [k \in 1..Len(d.attachments) |->
            Paragraph(attachmentRuns(d.attachments[k], k), FALSE, 216, 0, 60)]
    ELSE <<Paragraph(<<TextRun(NoAttachmentsText, FALSE, TRUE, 20, "9ca3af")>>,
                     FALSE, 0, 0, 0)>>

\* the children of the logo paragraph (lines 522-550)
logoChildren(buf) ==
    IF buf # "null"
    THEN <<[image |-> buf, width |-> 120, height |-> 40, type |-> "png"]>>
    ELSE <<TextRun(<<"G", "o">>, TRUE, FALSE, 40, "2563eb"),
           TextRun(<<"T", "e", "a", "m">>, TRUE, FALSE, 40, "1e40af")>>

\* a narrative box spread into the children whatever its content
optionalBoxAlways(title, text) == <<title>>

\* ...(content ? [createContentBox(title, content), spacer] : [])
optionalBox(title, text) == IF text # <<>> THEN <<title>> ELSE <<>>

\* the boxes among the children of the section, by title (lines 675-811)
sectionBoxes(d) ==
    <<"Incident Details:">>
    \o optionalBox("Findings:", d.findings)
    \o optionalBox("Policy/Code of Conduct Concerns:", d.policyViolation)
    \o <<"Attachments:", "Impact:", "SIGNATORIES">>

\* lines 375-911: the document built once logoBuffer is known
assemble(d, buf, tz) ==
    [built |-> TRUE,
     boxes |-> sectionBoxes(d),
     logo |-> logoChildren(buf),
     datePrepared |-> formatDate(d.datePrepared, tz),
     attachmentParagraphs |-> attachmentParagraphs(d),
     impactParagraph |-> impactParagraph(d)]

Return(buf) ==
    /\ logoBuffer' = buf
    /\ doc' = assemble(data, buf, hostTz)
    /\ genPc' = "done"
    /\ netState' = "none"
    /\ UNCHANGED <<data, hostTz>>

\* `await fetch(url)` resolves with response.ok: go on to arrayBuffer()
FetchResolvesOk ==
    /\ genPc = "fetch" /\ netState = "pending"
    /\ genPc' = "body"
    /\ UNCHANGED <<data, hostTz, netState, logoBuffer, doc>>

\* `await fetch(url)` resolves with !response.ok: return null
FetchResolvesNotOk ==
    /\ genPc = "fetch" /\ netState = "pending"
    /\ Return("null")

\* `await fetch(url)` rejects: catch { return null }
FetchRejects ==
    /\ genPc = "fetch" /\ netState = "pending"
    /\ Return("null")

\* `await response.arrayBuffer()` resolves
BodyResolves ==
    /\ genPc = "body" /\ netState = "pending"
    /\ Return("buffer")

\* `await response.arrayBuffer()` rejects: catch { return null }
BodyRejects ==
    /\ genPc = "body" /\ netState = "pending"
    /\ Return("null")

\* The server stops answering: the awaited promise will never settle.
\* Neither fetch call carries a signal or a timer.
NetworkStalls ==
    /\ genPc \in {"fetch", "body"} /\ netState = "pending"
    /\ netState' = "stalled"
    /\ UNCHANGED <<data, hostTz, genPc, logoBuffer, doc>>

N_Screenshot ==
    <<"S", "c", "r", "e", "e", "n", "s", "h", "o", "t">>
D_Log ==
    <<"l", "o", "g">>
Cat_Client ==
    <<"C", "l", "i", "e", "n", "t">>
O_Vendor ==
    <<"V", "e", "n", "d", "o", "r">>
Date_Mar15 ==
    <<"2", "0", "2", "4", "-", "0", "3", "-", "1", "5">>
Date_Mar01 ==
    <<"2", "0", "2", "4", "-", "0", "3", "-", "0", "1">>
Date_Jan01 ==
    <<"2", "0", "2", "4", "-", "0", "1", "-", "0", "1">>

F_Text == <<"f">>
P_Text == <<"p">>

AttachmentSet == [nameOrLink : {<<>>, N_Screenshot}, description : {<<>>, D_Log}]

DataSet ==
    [datePrepared : {<<>>, Date_Mar15, Date_Mar01, Date_Jan01},
     attachments : UNION {[1..n -> AttachmentSet] : n \in 0..MaxAtt},
     impactCategories :
         UNION {[1..n -> {OthersText, Cat_Client}] : n \in 0..MaxCats},
     impactOthersSpecify : {<<>>, O_Vendor},
     findings : {<<>>, F_Text},
     policyViolation : {<<>>, P_Text}]

\* America/Bogota, UTC, Asia/Manila
HostZones == {0 - 5, 0, 8}

\* generateIncidentReportDocx(data) has been called and awaits fetch(url)
InitDocx ==
    /\ data \in DataSet
    /\ hostTz \in HostZones
    /\ genPc = "fetch"
    /\ netState = "pending"
    /\ logoBuffer = "null"
    /\ doc = [built |-> FALSE]
    \* no editor is mounted, the markdown functions are not running
    /\ editor = FALSE
    /\ value = ""
    /\ isUpdatingFromProp = FALSE
    /\ lastExternalValue = ""
    /\ content = "<p></p>"
    /\ pendingClears = 0
    /\ onChangeCalls = <<>>
    /\ echoes = <<>>
    /\ lastOp = "init"
    /\ lastLoaded = ""
    /\ afterDrop = FALSE
    /\ inText = <<>>
    /\ remaining = <<>>
    /\ runs = <<>>
    /\ inPc = "done"
    /\ inSel = [found |-> FALSE]
    /\ inCands = {}
    /\ italicDelims = {}
    /\ mdText = <<>>
    /\ mdLines = <<>>
    /\ mdIdx = 0
    /\ currentListNumber = 0
    /\ paragraphs = <<>>
    /\ mdPc = "done"
    \* the form page is not mounted
    /\ attachments = <<>>
    /\ nextId = 1
    /\ findings = ""
    /\ enhancingField = [kind |-> "null", id |-> 0]
    /\ requests = <<>>
    /\ formOp = [op |-> "init"]
    /\ impactCategories = <<>>
    /\ impactOthersSpecify = ""
    /\ impactOp = [op |-> "init"]

NextDocx ==
    \/ FetchResolvesOk /\ UNCHANGED <<syncVars, inVars, mdVars, enhVars, impVars>>
    \/ FetchResolvesNotOk /\ UNCHANGED <<syncVars, inVars, mdVars, enhVars, impVars>>
    \/ FetchRejects /\ UNCHANGED <<syncVars, inVars, mdVars, enhVars, impVars>>
    \/ BodyResolves /\ UNCHANGED <<syncVars, inVars, mdVars, enhVars, impVars>>
    \/ BodyRejects /\ UNCHANGED <<syncVars, inVars, mdVars, enhVars, impVars>>
    \/ NetworkStalls /\ UNCHANGED <<syncVars, inVars, mdVars, enhVars, impVars>>

SpecDocx == InitDocx /\ [][NextDocx]_vars

\* Every step that can be taken is eventually taken: settled promises run
\* their continuations, and a network that can still answer does.
SpecDocxFair == InitDocx /\ [][NextDocx]_vars /\ WF_vars(NextDocx)

----------------------------------------------------------------------------
(* Claims about generateIncidentReportDocx                                 *)

WordmarkRuns ==
    <<TextRun(<<"G", "o">>, TRUE, FALSE, 40, "2563eb"),
      TextRun(<<"T", "e", "a", "m">>, TRUE, FALSE, 40, "1e40af")>>

\* C12: the logo fetch never makes generation fail and never blocks it:
\* whatever the fetch does (rejects, answers non-OK, never answers),
\* generation completes, and a document built without the image carries
\* the 'Go' + 'Team' wordmark runs.
C12_LogoFetchNeverBlocks ==
    /\ [](genPc = "done" /\ logoBuffer = "null" => doc.logo = WordmarkRuns)
    /\ <>(genPc = "done")

Ex_Line1 ==
    <<"1", ".", " ", "A", "t", "t", "a", "c", "h", "m", "e", "n", "t", " ",
      "1", " ", "em-dash", " ", "l", "o", "g">>
Ex_Line2 ==
    <<"2", ".", " ", "S", "c", "r", "e", "e", "n", "s", "h", "o", "t">>

Ex_Attachments ==
    <<[nameOrLink |-> <<>>, description |-> D_Log],
      [nameOrLink |-> N_Screenshot, description |-> <<>>]>>

\* the text the claim gives for the i-th attachment line
AttachmentLineText(att, i) ==
    LET label == IF att.nameOrLink = <<>>
                 THEN AttachmentText \o NumChars(i) ELSE att.nameOrLink
        tail  == IF att.description = <<>> THEN <<>>
                 ELSE <<" ", "em-dash", " ">> \o att.description
    IN  NumChars(i) \o <<".", " ">> \o label \o tail

\* C13: the i-th attachment (1-based) renders as one line reading
\* '<i>. ' + (nameOrLink, or 'Attachment <i>' when it is empty) +
\* (' - ' + description only when the description is non-empty; the dash
\* is U+2014); an empty list renders the single line 'No attachments'.
\* [{'', 'log'}, {'Screenshot', ''}] renders '1. Attachment 1 - log' and
\* '2. Screenshot'.
C13_AttachmentLines ==
    genPc = "done" =>
        LET atts == data.attachments
            ps   == doc.attachmentParagraphs
        IN  /\ atts = <<>> =>
                /\ Len(ps) = 1
                /\ ConcatText(ps[1].children) = NoAttachmentsText
            /\ atts # <<>> =>
                /\ Len(ps) = Len(atts)
                /\ \A i \in 1..Len(atts) :
                      ConcatText(ps[i].children)
                          = AttachmentLineText(atts[i], i)
            /\ atts = Ex_Attachments =>
                /\ ConcatText(ps[1].children) = Ex_Line1
                /\ ConcatText(ps[2].children) = Ex_Line2

C13_Witness ==
    /\ genPc = "done"
    /\ data.attachments = Ex_Attachments
    /\ ConcatText(doc.attachmentParagraphs[2].children) = Ex_Line2

Ex_ImpactOthersVendor ==
    <<"I", "m", "p", "a", "c", "t", "e", "d", " ", "P", "a", "r", "t", "i",
      "e", "s", ":", " ", "O", "t", "h", "e", "r", "s", " ", "(", "V", "e",
      "n", "d", "o", "r", ")">>
Ex_ImpactNone ==
    <<"I", "m", "p", "a", "c", "t", "e", "d", " ", "P", "a", "r", "t", "i",
      "e", "s", ":", " ", "N", "o", "n", "e", " ", "s", "e", "l", "e", "c",
      "t", "e", "d">>

\* the categories in selection order, rendered as the claim says
RECURSIVE ImpactListText(_, _)
ImpactListText(cats, free) ==
    IF cats = <<>> THEN <<>>
    ELSE LET c    == cats[1]
             item == IF c = OthersText /\ free # <<>>
                     THEN OthersText \o <<" ", "(">> \o free \o <<")">>
                     ELSE c
         IN  item \o (IF Len(cats) > 1 THEN <<",", " ">> ELSE <<>>)
                  \o ImpactListText(Tail(cats), free)

\* C14: the first line of the Impact box reads 'Impacted Parties: '
\* followed by the selected categories joined with ', ' in selection
\* order, 'Others' being rendered 'Others (<free text>)' exactly when the
\* free text is non-empty; with no category selected it reads
\* 'Impacted Parties: None selected', the second run in muted italics.
C14_ImpactLine ==
    genPc = "done" =>
        LET cats == data.impactCategories
            free == data.impactOthersSpecify
            line == doc.impactParagraph.children
        IN  /\ cats # <<>> =>
                /\ ConcatText(line)
                       = ImpactedPartiesText \o ImpactListText(cats, free)
                /\ ~line[2].italics
            /\ cats = <<>> =>
                /\ ConcatText(line) = Ex_ImpactNone
                /\ line[2].italics
                /\ line[2].color = "9ca3af"
            /\ cats = <<OthersText>> /\ free = O_Vendor =>
                ConcatText(line) = Ex_ImpactOthersVendor
            /\ cats = <<OthersText>> /\ free = <<>> =>
                ConcatText(line) = ImpactedPartiesText \o OthersText

C14_Witness ==
    /\ genPc = "done"
    /\ data.impactCategories = <<OthersText, Cat_Client>>
    /\ data.impactOthersSpecify = <<>>
    /\ ConcatText(doc.impactParagraph.children)
           = ImpactedPartiesText \o OthersText \o <<",", " ">> \o Cat_Client

\* C15: a date-only input 'YYYY-MM-DD' renders as '<Month> <Day>, <Year>'
\* of that same calendar day in every host time zone, and an empty input
\* renders 'Not specified'.
C15_SameCalendarDay ==
    genPc = "done" =>
        LET s == data.datePrepared
        IN  doc.datePrepared =
                IF s = <<>> THEN NotSpecifiedText
                ELSE MonthName[DigitsValue(SubSeq(s, 6, 7))] \o <<" ">>
                     \o NumChars(DigitsValue(SubSeq(s, 9, 10)))
                     \o <<",", " ">> \o SubSeq(s, 1, 4)

----------------------------------------------------------------------------
(* Further claims about parseInlineMarkdown                                *)

\* C21: two characters consumed as italic delimiters are never neighbours
\* in the original line when they are the same character: '**' (or '__')
\* is never consumed as two italic markers, at any scan step.
C21_NoDoubledItalicDelimiter ==
    \A p \in italicDelims :
        (p + 1) \in italicDelims => inText[p] # inText[p + 1]

\* C21 witness: an italic span was selected after the remaining text had been
\* truncated by an earlier match.
C21_Witness ==
    /\ inSel.found /\ inSel.type = "italic"
    /\ Cardinality(italicDelims) >= 4
    /\ Len(inText) - Len(remaining) > inSel.length

\* C22: at no scan step do two candidates of different types open at the
\* same offset of the remaining text, so the selected span is the only
\* candidate at the least offset.
C22_NoTieBetweenBoldAndItalic ==
    /\ \A c1, c2 \in inCands :
           c1.type # c2.type => c1.index # c2.index
    /\ inSel.found =>
           \A c \in inCands : c.index <= inSel.index => c = inSel

\* C22 witness: a step at which a bold and an italic candidate both exist.
C22_Witness ==
    /\ \E c \in inCands : c.type = "bold"
    /\ \E c \in inCands : c.type = "italic"

FormattedRuns == {k \in 1..Len(runs) : runs[k].bold \/ runs[k].italics}

\* C25 (SpecInlineFair): an iteration that selects a span shortens the
\* remaining text by at least three characters, an iteration that finds no
\* span ends the loop, the spans selected so far account for at least three
\* consumed characters each, and the loop ends on every line.
C25_InlineLoopTerminates ==
    /\ [][(inPc = "loop" /\ inPc' = "loop")
             => Len(remaining') <= Len(remaining) - 3]_vars
    /\ [](3 * Cardinality(FormattedRuns) <= Len(inText) - Len(remaining))
    /\ [][(inPc = "loop" /\ Len(remaining) > 0
             /\ candidates(remaining) = <<>>) => inPc' = "done"]_vars
    /\ <>(inPc = "done")

\* C25 witness: a finished line on which two spans were selected.
C25_Witness ==
    /\ inPc = "done"
    /\ Cardinality(FormattedRuns) >= 2

----------------------------------------------------------------------------
(* Further claims about parseMarkdownToParagraphs                          *)

\* the remainder of a heading line after its marker
HeadingRemainder(t) ==
    IF startsWith(t, <<"#", "#", "#", " ">>) THEN Drop(t, 4)
    ELSE IF startsWith(t, <<"#", "#", " ">>) THEN Drop(t, 3)
    ELSE Drop(t, 2)

\* the texts of a sequence of runs, in order
RunTexts(rs) == [k \in 1..Len(rs) |-> rs[k].text]

\* C23 as claimed: the content of a heading block is the inline-run parse of
\* the remainder after the marker: its runs carry the texts that
\* parseInlineMarkdown gives for the remainder, the delimiters consumed, so
\* '# **a** b' yields a run 'a' and a run ' b'.
C23_HeadingContentInlineParsed ==
    \A i \in Rendered :
        BlockKind(paragraphs[i]) \in {"Heading1", "Heading2", "Heading3"} =>
            RunTexts(paragraphs[i].children)
                = RunTexts(parseInlineMarkdown(
                               HeadingRemainder(Trim(mdLines[i]))))

----------------------------------------------------------------------------
(* Further claims about generateIncidentReportDocx                         *)

\* the position of the box titled t among the boxes of the document
BoxAt(t) == {k \in 1..Len(doc.boxes) : doc.boxes[k] = t}

Before(t1, t2) == \A k1 \in BoxAt(t1) : \A k2 \in BoxAt(t2) : k1 < k2

\* C24: the Findings box is in the document exactly when findings is
\* non-empty and the Policy Violation box exactly when policyViolation is
\* non-empty; when present they come in that order between Incident Details
\* and Attachments; Incident Details, Attachments, Impact and Signatories
\* are always there, once each, in that order.
C24_OptionalBoxes ==
    genPc = "done" =>
        /\ (BoxAt("Findings:") # {}) <=> (data.findings # <<>>)
        /\ (BoxAt("Policy/Code of Conduct Concerns:") # {})
               <=> (data.policyViolation # <<>>)
        /\ \A t \in {"Incident Details:", "Attachments:", "Impact:",
                     "SIGNATORIES"} : Cardinality(BoxAt(t)) = 1
        /\ \A t \in {"Findings:", "Policy/Code of Conduct Concerns:"} :
               Cardinality(BoxAt(t)) <= 1
        /\ Before("Incident Details:", "Findings:")
        /\ Before("Incident Details:", "Policy/Code of Conduct Concerns:")
        /\ Before("Findings:", "Policy/Code of Conduct Concerns:")
        /\ Before("Findings:", "Attachments:")
        /\ Before("Policy/Code of Conduct Concerns:", "Attachments:")
        /\ Before("Incident Details:", "Attachments:")
        /\ Before("Attachments:", "Impact:")
        /\ Before("Impact:", "SIGNATORIES")

\* C24 witness: a report with a policy text and no findings got the Policy
\* Violation box and no Findings box.
C24_Witness ==
    /\ genPc = "done"
    /\ data.findings = <<>> /\ data.policyViolation # <<>>
    /\ Len(doc.boxes) = 5
    /\ doc.boxes[2] = "Policy/Code of Conduct Concerns:"

----------------------------------------------------------------------------
(* Claims about overlapping windows and echoes of the sync controller      *)

\* C26 as claimed: while the clear scheduled by some external change has
\* not run yet, the flag stays set: the clear of an earlier change never
\* re-arms notifications inside the window of a later one.
C26_FlagSetWhileAnyWindowOpen ==
    pendingClears > 0 => isUpdatingFromProp

\* C27 as claimed: the delivery of an echo (the caller rendering back a
\* value the controller passed to onChange) never replaces the content of
\* the surface and never opens a suppression window, whatever local edits
\* were emitted in between.
C27_EchoNeverLoads ==
    [][(echoes # <<>> /\ echoes' = Tail(echoes))
          => /\ content' = content
             /\ pendingClears' = pendingClears
             /\ isUpdatingFromProp' = isUpdatingFromProp]_vars

----------------------------------------------------------------------------
(* Form page: attachments and AI enhancement (FormPage, handleAIEnhance)   *)

\* EnhancingField values: 'findings', `attachment_${id}`; null
FindingsField == [kind |-> "findings", id |-> 0]
AttachmentField(id) == [kind |-> "attachment", id |-> id]
NoField == [kind |-> "null", id |-> 0]

\* text a user types into a description, a name, the findings editor
UserTexts == {"", "d"}
\* response.data.formattedText
FormattedText == "E"

Ids(atts) == {atts[k].id : k \in 1..Len(atts)}

\* attachments.map(att => att.id === id ? { ...att, [field]: value } : att)
mapField(atts, id, field, v) ==
    [k \in 1..Len(atts) |->
        IF atts[k].id = id
        THEN (IF field = "description"
              THEN [atts[k] EXCEPT !.description = v]
              ELSE [atts[k] EXCEPT !.nameOrLink = v])
        ELSE atts[k]]

\* attachments.filter(att => att.id !== id)
filterOut(atts, id) == SelectSeq(atts, LAMBDA att : att.id # id)

\* the text shown in the editor of a field ("" when the field is gone)
FieldText(f) ==
    IF f = FindingsField THEN findings
    ELSE IF \E k \in 1..Len(attachments) : attachments[k].id = f.id
         THEN attachments[CHOOSE k \in 1..Len(attachments) :
                              attachments[k].id = f.id].description
         ELSE ""

\* addAttachment: setAttachments([...attachments, newAttachment])
addAttachment ==
    /\ nextId <= MaxIds
    /\ attachments' = Append(attachments,
                             [id |-> nextId, nameOrLink |-> "",
                              description |-> ""])
    /\ nextId' = nextId + 1
    /\ formOp' = [op |-> "add"]
    /\ UNCHANGED <<findings, enhancingField, requests>>

\* removeAttachment(id)
removeAttachment(id) ==
    /\ id \in Ids(attachments)
    /\ attachments' = filterOut(attachments, id)
    /\ formOp' = [op |-> "remove"]
    /\ UNCHANGED <<nextId, findings, enhancingField, requests>>

\* updateAttachment(id, field, value) from an input's onChange
updateAttachment(id, field, v) ==
    /\ id \in Ids(attachments)
    /\ attachments' = mapField(attachments, id, field, v)
    /\ attachments' # attachments
    /\ formOp' = [op |-> "update"]
    /\ UNCHANGED <<nextId, findings, enhancingField, requests>>

\* setFindings from the findings editor's onChange
editFindings(v) ==
    /\ v # findings
    /\ findings' = v
    /\ formOp' = [op |-> "findings"]
    /\ UNCHANGED <<attachments, nextId, enhancingField, requests>>

\* The AI Enhance button of field f is clicked: it is enabled
\* (!isEnhancing && !aiEnhanceDisabled), handleAIEnhance passes its trim
\* test, calls setEnhancingField(fieldName) and awaits axios.post.  The
\* setter of an attachment is (text) => updateAttachment(id, ...) of the
\* render that drew the button: it closes over that render's attachments.
startEnhance(f) ==
    /\ Len(requests) < MaxReq
    /\ f # FindingsField => f.id \in Ids(attachments)
    /\ enhancingField # f
    /\ FieldText(f) # ""
    /\ enhancingField' = f
    /\ requests' = Append(requests,
                          [field |-> f,
                           closure |-> IF f = FindingsField THEN <<>>
                                       ELSE attachments])
    /\ formOp' = [op |-> "start", field |-> f]
    /\ UNCHANGED <<attachments, nextId, findings>>

RemoveAt(q, k) == SubSeq(q, 1, k - 1) \o SubSeq(q, k + 1, Len(q))

\* (text) => updateAttachment(attachment.id, 'description', text) as
\* handleAIEnhance received it: setAttachments(attachments.map(...)) over
\* the attachments of the render that created it
attachmentSetter(req, text) ==
    mapField(req.closure, req.field.id, "description", text)

\* The k-th request resolves with success and formattedText:
\* setter(formattedText), then finally setEnhancingField(null)
enhanceSucceeds(k) ==
    /\ k \in 1..Len(requests)
    /\ LET req == requests[k]
       IN  /\ IF req.field = FindingsField
              THEN /\ findings' = FormattedText
                   /\ UNCHANGED attachments
              ELSE /\ attachments' =
                        attachmentSetter(req, FormattedText)
                   /\ UNCHANGED findings
           /\ formOp' = [op |-> "response", field |-> req.field]
    /\ enhancingField' = NoField
    /\ requests' = RemoveAt(requests, k)
    /\ UNCHANGED nextId

\* The k-th request rejects, or resolves without success / formattedText:
\* no setter call, then finally setEnhancingField(null)
enhanceFails(k) ==
    /\ k \in 1..Len(requests)
    /\ enhancingField' = NoField
    /\ requests' = RemoveAt(requests, k)
    /\ formOp' = [op |-> "failed", field |-> requests[k].field]
    /\ UNCHANGED <<attachments, nextId, findings>>

\* the form page has just been mounted
InitEnhance ==
    /\ attachments = <<>>
    /\ nextId = 1
    /\ findings = ""
    /\ enhancingField = NoField
    /\ requests = <<>>
    /\ formOp = [op |-> "init"]
    \* no editor is mounted, the markdown functions are not running
    /\ editor = FALSE
    /\ value = ""
    /\ isUpdatingFromProp = FALSE
    /\ lastExternalValue = ""
    /\ content = "<p></p>"
    /\ pendingClears = 0
    /\ onChangeCalls = <<>>
    /\ echoes = <<>>
    /\ lastOp = "init"
    /\ lastLoaded = ""
    /\ afterDrop = FALSE
    /\ inText = <<>>
    /\ remaining = <<>>
    /\ runs = <<>>
    /\ inPc = "done"
    /\ inSel = [found |-> FALSE]
    /\ inCands = {}
    /\ italicDelims = {}
    /\ mdText = <<>>
    /\ mdLines = <<>>
    /\ mdIdx = 0
    /\ currentListNumber = 0
    /\ paragraphs = <<>>
    /\ mdPc = "done"
    \* generateIncidentReportDocx is not running
    /\ data = [datePrepared |-> <<>>, attachments |-> <<>>,
               impactCategories |-> <<>>, impactOthersSpecify |-> <<>>,
               findings |-> <<>>, policyViolation |-> <<>>]
    /\ hostTz = 0
    /\ genPc = "idle"
    /\ netState = "none"
    /\ logoBuffer = "null"
    /\ doc = [built |-> FALSE]
    /\ impactCategories = <<>>
    /\ impactOthersSpecify = ""
    /\ impactOp = [op |-> "init"]

NextEnhance ==
    \/ addAttachment /\ UNCHANGED <<syncVars, inVars, mdVars, docVars, impVars>>
    \/ \E id \in 1..MaxIds :
          removeAttachment(id) /\ UNCHANGED <<syncVars, inVars, mdVars, docVars, impVars>>
    \/ \E id \in 1..MaxIds, field \in {"nameOrLink", "description"},
          v \in UserTexts :
          updateAttachment(id, field, v)
              /\ UNCHANGED <<syncVars, inVars, mdVars, docVars, impVars>>
    \/ \E v \in UserTexts :
          editFindings(v) /\ UNCHANGED <<syncVars, inVars, mdVars, docVars, impVars>>
    \/ \E f \in {FindingsField} \cup {AttachmentField(id) : id \in 1..MaxIds} :
          startEnhance(f) /\ UNCHANGED <<syncVars, inVars, mdVars, docVars, impVars>>
    \/ \E k \in 1..MaxReq :
          enhanceSucceeds(k) /\ UNCHANGED <<syncVars, inVars, mdVars, docVars, impVars>>
    \/ \E k \in 1..MaxReq :
          enhanceFails(k) /\ UNCHANGED <<syncVars, inVars, mdVars, docVars, impVars>>

SpecEnhance == InitEnhance /\ [][NextEnhance]_vars

----------------------------------------------------------------------------
(* Claims about the form page's AI enhancement                             *)

\* C28 as claimed: when the response for the description of an attachment
\* is applied, the attachments other than the target keep the state they
\* had just before, no attachment is added or removed, and the target
\* keeps its name.
C28_ResponseChangesOnlyTarget ==
    [][(formOp'.op = "response" /\ formOp'.field # FindingsField)
          => /\ Len(attachments') = Len(attachments)
             /\ \A k \in 1..Len(attachments) :
                   IF attachments[k].id = formOp'.field.id
                   THEN /\ attachments'[k].id = attachments[k].id
                        /\ attachments'[k].nameOrLink
                              = attachments[k].nameOrLink
                   ELSE attachments'[k] = attachments[k]]_vars

\* C29 as claimed: while a request for a field is in flight,
\* enhancingField is that field, whatever other requests start or settle
\* meanwhile; when no request is in flight it is null.
C29_IndicatorFollowsRequest ==
    /\ \A k \in 1..Len(requests) : enhancingField = requests[k].field
    /\ requests = <<>> => enhancingField = NoField

----------------------------------------------------------------------------
(* Form page: impact selection (toggleImpactCategory)                      *)

\* const IMPACT_CATEGORIES
IMPACT_CATEGORIES == <<"Client", "GoTeam", "Peers", "Management", "Others">>

\* text typed into the 'Please specify' input
OthersTexts == {"", "v"}

\* prev.includes(category)
includes(prev, category) == \E k \in 1..Len(prev) : prev[k] = category

\* toggleImpactCategory that leaves the free text alone
toggleKeepsOthersSpecify(prev, others, category) ==
    IF includes(prev, category)
    THEN [categories |-> SelectSeq(prev, LAMBDA c : c # category),
          othersSpecify |-> others]
    ELSE [categories |-> Append(prev, category), othersSpecify |-> others]

\* toggleImpactCategory(category): the updater applied to prev, and the
\* free text after the setImpactOthersSpecify('') it may call
toggleImpactCategory(prev, others, category) ==
    IF includes(prev, category)
    THEN [categories |-> SelectSeq(prev, LAMBDA c : c # category),
          othersSpecify |-> IF category = "Others" THEN "" ELSE others]
    ELSE [categories |-> Append(prev, category), othersSpecify |-> others]

\* a category checkbox is clicked
ToggleCategory(category) ==
    /\ \E st \in {toggleImpactCategory(impactCategories,
                                      impactOthersSpecify, category)} :
          /\ impactCategories' = st.categories
          /\ impactOthersSpecify' = st.othersSpecify
    /\ impactOp' = [op |-> "toggle", category |-> category,
                    before |-> impactOthersSpecify]

\* the 'Please specify' input, rendered only while 'Others' is selected,
\* changes: setImpactOthersSpecify(e.target.value)
EditOthersSpecify(v) ==
    /\ includes(impactCategories, "Others")
    /\ v # impactOthersSpecify
    /\ impactOthersSpecify' = v
    /\ impactOp' = [op |-> "text", category |-> "Others",
                    before |-> impactOthersSpecify]
    /\ UNCHANGED impactCategories

\* the form page has just been mounted
InitImpact ==
    /\ impactCategories = <<>>
    /\ impactOthersSpecify = ""
    /\ impactOp = [op |-> "init"]
    \* no editor is mounted, the markdown functions are not running
    /\ editor = FALSE
    /\ value = ""
    /\ isUpdatingFromProp = FALSE
    /\ lastExternalValue = ""
    /\ content = "<p></p>"
    /\ pendingClears = 0
    /\ onChangeCalls = <<>>
    /\ echoes = <<>>
    /\ lastOp = "init"
    /\ lastLoaded = ""
    /\ afterDrop = FALSE
    /\ inText = <<>>
    /\ remaining = <<>>
    /\ runs = <<>>
    /\ inPc = "done"
    /\ inSel = [found |-> FALSE]
    /\ inCands = {}
    /\ italicDelims = {}
    /\ mdText = <<>>
    /\ mdLines = <<>>
    /\ mdIdx = 0
    /\ currentListNumber = 0
    /\ paragraphs = <<>>
    /\ mdPc = "done"
    \* generateIncidentReportDocx is not running
    /\ data = [datePrepared |-> <<>>, attachments |-> <<>>,
               impactCategories |-> <<>>, impactOthersSpecify |-> <<>>,
               findings |-> <<>>, policyViolation |-> <<>>]
    /\ hostTz = 0
    /\ genPc = "idle"
    /\ netState = "none"
    /\ logoBuffer = "null"
    /\ doc = [built |-> FALSE]
    \* no attachment, no enhancement request
    /\ attachments = <<>>
    /\ nextId = 1
    /\ findings = ""
    /\ enhancingField = [kind |-> "null", id |-> 0]
    /\ requests = <<>>
    /\ formOp = [op |-> "init"]

NextImpact ==
    \/ \E k \in 1..Len(IMPACT_CATEGORIES) :
          ToggleCategory(IMPACT_CATEGORIES[k])
              /\ UNCHANGED <<syncVars, inVars, mdVars, docVars, enhVars>>
    \/ \E v \in OthersTexts :
          EditOthersSpecify(v)
              /\ UNCHANGED <<syncVars, inVars, mdVars, docVars, enhVars>>

SpecImpact == InitImpact /\ [][NextImpact]_vars

\* C30: the free text is non-empty only while 'Others' is selected, a
\* toggle that removes 'Others' clears it, and no category is selected
\* twice.
C30_OthersTextOnlyWithOthers ==
    /\ [](impactOthersSpecify # "" => includes(impactCategories, "Others"))
    /\ [][(includes(impactCategories, "Others")
             /\ ~includes(impactCategories', "Others"))
          => impactOthersSpecify' = ""]_vars
    /\ [](\A i, j \in 1..Len(impactCategories) :
             i # j => impactCategories[i] # impactCategories[j])

\* C30 witness: 'Others' was removed while a free text was entered and
\* other categories stayed selected; the free text is empty now.
C30_Witness ==
    /\ impactOp.op = "toggle" /\ impactOp.category = "Others"
    /\ impactOp.before # ""
    /\ ~includes(impactCategories, "Others")
    /\ Len(impactCategories) >= 2
    /\ impactOthersSpecify = ""

====
